---------------------------- MODULE Spec2Model ----------------------------
(***************************************************************************)
(* docker_charon/encoder.py: building the payload archive.                 *)
(*                                                                         *)
(* create_zip_from_docker_images is modelled as a sequential program whose *)
(* steps are the iterations of its loops; the registry (DXF) and the zip   *)
(* file are recorded as the log of calls made to them and the sequence of  *)
(* entries written.  uniquify_blobs, which nothing in encoder.py calls, is *)
(* exercised by a specification of its own (SpecUniquify).                 *)
(***************************************************************************)
EXTENDS Naturals, Sequences, FiniteSets, TLC

VARIABLES
    docker_images_to_transfer,          \* argument of create_zip_from_docker_images
    docker_images_already_transferred,  \* argument of create_zip_from_docker_images
    registry,            \* image name -> digests its manifest lists (the registry's content)
    payload_descriptor,  \* the PayloadDescriptor of the run
    manifests,           \* manifests of the images to transfer (line 134)
    blobs_to_pull,       \* line 134
    blobs_already_transferred,  \* line 137
    blobs_paths,         \* the dict add_blobs_to_zip builds
    index,               \* position in the loop that is running
    zip_file,            \* the entries written to the archive, in order
    calls,               \* the calls made to the registry, in order
    error,               \* the exception that ended the run, or "none"
    pc,                  \* where create_zip_from_docker_images stands
    blobs,               \* uniquify_blobs: its argument
    once,                \* uniquify_blobs(blobs)
    twice,               \* uniquify_blobs(uniquify_blobs(blobs))
    upc

vars == << docker_images_to_transfer, docker_images_already_transferred, registry,
           payload_descriptor, manifests, blobs_to_pull, blobs_already_transferred,
           blobs_paths, index, zip_file, calls, error, pc, blobs, once, twice, upc >>

run_vars == << docker_images_to_transfer, docker_images_already_transferred, registry,
               payload_descriptor, manifests, blobs_to_pull, blobs_already_transferred,
               blobs_paths, index, zip_file, calls, error, pc >>

uniquify_vars == << blobs, once, twice, upc >>

---------------------------------------------------------------------------
(* Bounds of the model. *)

\* Longest list of images passed as either argument.
MaxImages == 2
\* Most blobs one manifest lists.
MaxBlobs == 2
\* Longest list given to uniquify_blobs.
MaxLen == 3

Images == {"a:1", "b:1", "b:2"}
Digests == {"sha256:abc", "sha256:def"}
Repositories == {"a", "b"}

Range(s) == {s[k] : k \in 1..Len(s)}
SeqsUpTo(S, n) == UNION {[1..k -> S] : k \in 0..n}
Front(s) == SubSeq(s, 1, Len(s) - 1)

---------------------------------------------------------------------------
(* docker_charon.common and the registry, as far as encoder.py uses them. *)

Blob(digest, repository) == [digest |-> digest, repository |-> repository]

\* The repository of an image name is the part before the tag.
Repository(docker_image) == IF docker_image = "a:1" THEN "a" ELSE "b"

\* A manifest body is a str, kept as the sequence of its tokens; a multi-architecture
\* index is a dict of platform -> body.
Str(tokens) == [type |-> "str", text |-> tokens, items |-> << >>]
Dict(items) == [type |-> "dict", text |-> << >>, items |-> items]
Bytes(digest) == [type |-> "bytes", text |-> <<digest>>, items |-> << >>]
Json == [type |-> "json", text |-> << >>, items |-> << >>]

M0 == Str(<<"schemaVersion", "config", "layers">>)
M1 == Str(<<"schemaVersion", "config", "layers", "amd64">>)
M2 == Str(<<"schemaVersion", "config", "layers", "arm64">>)

\* What the registry answers for each image: a single manifest, an index with
\* linux/amd64 and linux/arm64, an index with linux/arm64 alone.
ManifestContent(docker_image) ==
    CASE docker_image = "a:1" -> M0
      [] docker_image = "b:1" -> Dict([p \in {"linux/amd64", "linux/arm64"} |->
                                        IF p = "linux/amd64" THEN M1 ELSE M2])
      [] OTHER -> Dict([p \in {"linux/arm64"} |-> M2])

\* Manifest(dxf_base, docker_image, PayloadSide.ENCODER)
Manifest(docker_image) ==
    [docker_image_name |-> docker_image, content |-> ManifestContent(docker_image)]

\* Manifest.get_list_of_blobs: one Blob per digest, tagged with the image's repository.
get_list_of_blobs(reg, docker_image) ==
    [k \in 1..Len(reg[docker_image]) |-> Blob(reg[docker_image][k], Repository(docker_image))]

BlobPathInZip(zip_path) == [zip_path |-> zip_path]
BlobLocationInRegistry(repository) == [repository |-> repository]

ManifestPath(docker_image) == <<"manifests", docker_image>>
DescriptorPath == <<"payload_descriptor.json">>

---------------------------------------------------------------------------
(* The pure functions of encoder.py. *)

\* Faulty variant: the last blob of the list with the digest instead of the first.
get_blob_with_same_digest_last(list_of_blobs, digest) ==
    LET hits == {k \in 1..Len(list_of_blobs) : list_of_blobs[k].digest = digest}
    IN  IF hits = {} THEN << >>
        ELSE << list_of_blobs[CHOOSE k \in hits : \A j \in hits : k >= j] >>

\* Optional[Blob] is a sequence of length 0 (None) or 1: the first blob of the
\* list with the digest.
get_blob_with_same_digest(list_of_blobs, digest) ==
    LET hits == {k \in 1..Len(list_of_blobs) : list_of_blobs[k].digest = digest}
    IN  IF hits = {} THEN << >>
        ELSE << list_of_blobs[CHOOSE k \in hits : \A j \in hits : k <= j] >>

\* Faulty variant: "blob not in result" instead of comparing the digests.
RECURSIVE uniquify_blobs_by_equality(_)
uniquify_blobs_by_equality(bs) ==
    IF bs = << >> THEN << >>
    ELSE LET result == uniquify_blobs_by_equality(Front(bs))
             blob == bs[Len(bs)]
         IN  IF blob \notin Range(result) THEN Append(result, blob) ELSE result

RECURSIVE uniquify_blobs(_)
uniquify_blobs(bs) ==
    IF bs = << >> THEN << >>
    ELSE LET result == uniquify_blobs(Front(bs))
             blob == bs[Len(bs)]
         IN  IF blob.digest \notin {x.digest : x \in Range(result)}
             THEN Append(result, blob)
             ELSE result

\* Faulty variant: the membership test never succeeds, so no image is skipped.
separate_images_nothing_skipped(to_transfer, already_transferred) ==
    << to_transfer, << >> >>

RECURSIVE separate_images_to_transfer_and_images_to_skip(_, _)
separate_images_to_transfer_and_images_to_skip(to_transfer, already_transferred) ==
    IF to_transfer = << >> THEN << << >>, << >> >>
    ELSE LET rest == separate_images_to_transfer_and_images_to_skip(
                         Front(to_transfer), already_transferred)
             docker_image == to_transfer[Len(to_transfer)]
         IN  IF docker_image \notin Range(already_transferred)
             THEN << Append(rest[1], docker_image), rest[2] >>
             ELSE << rest[1], Append(rest[2], docker_image) >>

\* PayloadDescriptor.from_images
from_images(to_transfer, already_transferred) ==
    LET parts == separate_images_to_transfer_and_images_to_skip(to_transfer, already_transferred)
    IN  [ images |-> parts[1],
          manifests_paths |-> [img \in Range(parts[1]) |-> ManifestPath(img)],
          blobs_paths |-> << >>,
          skipped_images |-> parts[2] ]

\* PayloadDescriptor.get_images_not_transferred_yet
get_images_not_transferred_yet(descriptor) == descriptor.images

\* "linux/amd64" in manifest.content: a substring of a str, a key of a dict.
Contains(content, key) ==
    IF content.type = "str"
    THEN \E k \in 1..Len(content.text) : content.text[k] = key
    ELSE key \in DOMAIN content.items

\* dict[key] = value
SetItem(dict, key, value) ==
    [x \in (DOMAIN dict) \cup {key} |-> IF x = key THEN value ELSE dict[x]]

\* Lines 145-148: the body to write for a manifest, or the TypeError of indexing
\* a str with a str.
select_manifest(content) ==
    IF Contains(content, "linux/amd64")
    THEN IF content.type = "dict"
         THEN [ok |-> TRUE, value |-> content.items["linux/amd64"]]
         ELSE [ok |-> FALSE, value |-> content]
    ELSE [ok |-> TRUE, value |-> content]

\* ZipFile.writestr and ZipFile.open(..., "w") take str or bytes.
Writable(data) == data.type \in {"str", "bytes", "json"}

Entry(name, data, complete) == [name |-> name, data |-> data, complete |-> complete]
Call(op, repository, ref) == [op |-> op, repository |-> repository, ref |-> ref]

---------------------------------------------------------------------------
(* create_zip_from_docker_images *)

\* Faulty variant: the exception is caught and logged, and the run goes on.
Raise_swallowed(exception) ==
    /\ pc' = pc
    /\ error' = exception

\* An exception leaves create_zip_from_docker_images, which catches nothing.
Raise(exception) ==
    /\ pc' = "failed"
    /\ error' = exception

\* Lines 130-132 have run: the descriptor is built from the two lists.
Init ==
    /\ docker_images_to_transfer \in SeqsUpTo(Images, MaxImages)
    /\ docker_images_already_transferred \in SeqsUpTo(Images, MaxImages)
    /\ registry \in [Images -> SeqsUpTo(Digests, MaxBlobs)]
    /\ \A img \in Images :
          img \notin Range(docker_images_to_transfer) \cup Range(docker_images_already_transferred)
              => registry[img] = << >>
    /\ payload_descriptor =
           from_images(docker_images_to_transfer, docker_images_already_transferred)
    /\ manifests = << >>
    /\ blobs_to_pull = << >>
    /\ blobs_already_transferred = << >>
    /\ blobs_paths = << >>
    /\ index = 1
    /\ zip_file = << >>
    /\ calls = << >>
    /\ error = "none"
    /\ pc = "resolve"
    /\ blobs = << >>
    /\ once = << >>
    /\ twice = << >>
    /\ upc = "idle"

\* Lines 92-95 for the images to transfer (line 134).
resolve_image_to_transfer ==
    /\ pc = "resolve"
    /\ index <= Len(get_images_not_transferred_yet(payload_descriptor))
    /\ LET docker_image == get_images_not_transferred_yet(payload_descriptor)[index]
       IN  /\ calls' = Append(calls, Call("get_manifest", Repository(docker_image), docker_image))
           /\ \/ /\ manifests' = Append(manifests, Manifest(docker_image))
                 /\ blobs_to_pull' = blobs_to_pull \o get_list_of_blobs(registry, docker_image)
                 /\ index' = index + 1
                 /\ UNCHANGED << pc, error >>
              \/ /\ Raise("ManifestNotFoundError")
                 /\ UNCHANGED << manifests, blobs_to_pull, index >>
    /\ UNCHANGED << docker_images_to_transfer, docker_images_already_transferred, registry,
                    payload_descriptor, blobs_already_transferred, blobs_paths, zip_file >>
    /\ UNCHANGED uniquify_vars

\* Line 96, then line 137 starts.
resolve_to_transfer_return ==
    /\ pc = "resolve"
    /\ index > Len(get_images_not_transferred_yet(payload_descriptor))
    /\ pc' = "resolve_already"
    /\ index' = 1
    /\ UNCHANGED << docker_images_to_transfer, docker_images_already_transferred, registry,
                    payload_descriptor, manifests, blobs_to_pull, blobs_already_transferred,
                    blobs_paths, zip_file, calls, error >>
    /\ UNCHANGED uniquify_vars

\* Lines 92-95 for the images already transferred (line 137); the manifests are dropped.
resolve_image_already_transferred ==
    /\ pc = "resolve_already"
    /\ index <= Len(docker_images_already_transferred)
    /\ LET docker_image == docker_images_already_transferred[index]
       IN  /\ calls' = Append(calls, Call("get_manifest", Repository(docker_image), docker_image))
           /\ \/ /\ blobs_already_transferred' =
                        blobs_already_transferred \o get_list_of_blobs(registry, docker_image)
                 /\ index' = index + 1
                 /\ UNCHANGED << pc, error >>
              \/ /\ Raise("ManifestNotFoundError")
                 /\ UNCHANGED << blobs_already_transferred, index >>
    /\ UNCHANGED << docker_images_to_transfer, docker_images_already_transferred, registry,
                    payload_descriptor, manifests, blobs_to_pull, blobs_paths, zip_file >>
    /\ UNCHANGED uniquify_vars

\* Line 96, then add_blobs_to_zip starts (lines 140, 30).
resolve_already_transferred_return ==
    /\ pc = "resolve_already"
    /\ index > Len(docker_images_already_transferred)
    /\ pc' = "add_blobs"
    /\ index' = 1
    /\ blobs_paths' = << >>
    /\ UNCHANGED << docker_images_to_transfer, docker_images_already_transferred, registry,
                    payload_descriptor, manifests, blobs_to_pull, blobs_already_transferred,
                    zip_file, calls, error >>
    /\ UNCHANGED uniquify_vars


---------------------------------------------------------------------------
(* add_blobs_to_zip: one action per way through the loop body *)

Unchanged_in_add_blobs ==
    UNCHANGED << docker_images_to_transfer, docker_images_already_transferred, registry,
                 payload_descriptor, manifests, blobs_to_pull, blobs_already_transferred >>

\* Faulty variant: the check of line 33 is missing.
already_placed_never(placed, digest) == FALSE

\* Line 33: blob.digest in blobs_paths
already_placed(placed, digest) == digest \in DOMAIN placed

\* Lines 33-38: the digest already has a placement.
add_blobs_skip_placed ==
    /\ pc = "add_blobs"
    /\ index <= Len(blobs_to_pull)
    /\ already_placed(blobs_paths, blobs_to_pull[index].digest)
    /\ index' = index + 1
    /\ Unchanged_in_add_blobs
    /\ UNCHANGED << blobs_paths, zip_file, calls, error, pc >>
    /\ UNCHANGED uniquify_vars

\* Faulty variant: the blob is skipped without its placement being recorded (line 48 missing).
add_blobs_already_transferred_unrecorded ==
    /\ pc = "add_blobs"
    /\ index <= Len(blobs_to_pull)
    /\ ~already_placed(blobs_paths, blobs_to_pull[index].digest)
    /\ Len(get_blob_with_same_digest(blobs_already_transferred,
                                     blobs_to_pull[index].digest)) > 0
    /\ index' = index + 1
    /\ Unchanged_in_add_blobs
    /\ UNCHANGED << blobs_paths, zip_file, calls, error, pc >>
    /\ UNCHANGED uniquify_vars

\* Lines 40-51: a blob of the same digest is already in the destination registry.
add_blobs_already_transferred ==
    /\ pc = "add_blobs"
    /\ index <= Len(blobs_to_pull)
    /\ LET blob == blobs_to_pull[index]
           dest_blob == get_blob_with_same_digest(blobs_already_transferred, blob.digest)
       IN  /\ ~already_placed(blobs_paths, blob.digest)
           /\ Len(dest_blob) > 0
           /\ blobs_paths' = SetItem(blobs_paths, blob.digest,
                                     BlobLocationInRegistry(dest_blob[1].repository))
    /\ index' = index + 1
    /\ Unchanged_in_add_blobs
    /\ UNCHANGED << zip_file, calls, error, pc >>
    /\ UNCHANGED uniquify_vars

\* Faulty variant: the pull goes to the repository of the last blob to pull with this
\* digest, not to the repository of the blob at hand.
download_blob_to_zip_last_repository(blob) ==
    LET last == get_blob_with_same_digest_last(blobs_to_pull, blob.digest)[1]
    IN  /\ calls' = Append(calls, Call("pull_blob", last.repository, blob.digest))
        /\ \/ /\ zip_file' = Append(zip_file,
                                    Entry(<<"blobs", blob.digest>>, Bytes(blob.digest), TRUE))
              /\ UNCHANGED << pc, error >>
           \/ /\ Raise("BlobTransferError")
              /\ UNCHANGED zip_file

\* Lines 60-71.  pull_blob is called on the blob's repository; then the entry
\* blobs/<digest> is opened and the chunks are written to it.  The pull may be
\* refused, and the stream or the archive may fail with the entry open.
download_blob_to_zip(blob) ==
    /\ calls' = Append(calls, Call("pull_blob", blob.repository, blob.digest))
    /\ \/ /\ zip_file' = Append(zip_file, Entry(<<"blobs", blob.digest>>, Bytes(blob.digest), TRUE))
          /\ UNCHANGED << pc, error >>
       \/ /\ Raise("BlobTransferError")
          /\ UNCHANGED zip_file
       \/ /\ \E exception \in {"BlobTransferError", "ArchiveWriteError"} : Raise(exception)
          /\ zip_file' = Append(zip_file, Entry(<<"blobs", blob.digest>>, Bytes(blob.digest), FALSE))

\* Lines 53-56, the nominal case.
add_blobs_download ==
    /\ pc = "add_blobs"
    /\ index <= Len(blobs_to_pull)
    /\ LET blob == blobs_to_pull[index]
       IN  /\ ~already_placed(blobs_paths, blob.digest)
           /\ Len(get_blob_with_same_digest(blobs_already_transferred, blob.digest)) = 0
           /\ download_blob_to_zip(blob)
           /\ IF pc' = "failed"
              THEN UNCHANGED << blobs_paths, index >>
              ELSE /\ blobs_paths' = SetItem(blobs_paths, blob.digest,
                                             BlobPathInZip(<<"blobs", blob.digest>>))
                   /\ index' = index + 1
    /\ Unchanged_in_add_blobs
    /\ UNCHANGED uniquify_vars

\* Faulty variant: the result of add_blobs_to_zip is not stored in the descriptor.
add_blobs_return_unassigned ==
    /\ pc = "add_blobs"
    /\ index > Len(blobs_to_pull)
    /\ pc' = "manifests"
    /\ index' = 1
    /\ UNCHANGED << docker_images_to_transfer, docker_images_already_transferred, registry,
                    payload_descriptor, manifests, blobs_to_pull, blobs_already_transferred,
                    blobs_paths, zip_file, calls, error >>
    /\ UNCHANGED uniquify_vars

\* Faulty variant: the descriptor is dumped as soon as blobs_paths is known, before the
\* manifests are written.
add_blobs_return_descriptor_first ==
    /\ pc = "add_blobs"
    /\ index > Len(blobs_to_pull)
    /\ payload_descriptor' = [payload_descriptor EXCEPT !.blobs_paths = blobs_paths]
    /\ zip_file' = Append(zip_file, [name |-> <<"payload_descriptor.json">>,
                                     data |-> [type |-> "json", text |-> << >>, items |-> << >>],
                                     complete |-> TRUE])
    /\ pc' = "manifests"
    /\ index' = 1
    /\ UNCHANGED << docker_images_to_transfer, docker_images_already_transferred, registry,
                    manifests, blobs_to_pull, blobs_already_transferred, blobs_paths,
                    calls, error >>
    /\ UNCHANGED uniquify_vars

\* Line 57, and the assignment of line 140.
add_blobs_return ==
    /\ pc = "add_blobs"
    /\ index > Len(blobs_to_pull)
    /\ payload_descriptor' = [payload_descriptor EXCEPT !.blobs_paths = blobs_paths]
    /\ pc' = "manifests"
    /\ index' = 1
    /\ UNCHANGED << docker_images_to_transfer, docker_images_already_transferred, registry,
                    manifests, blobs_to_pull, blobs_already_transferred, blobs_paths,
                    zip_file, calls, error >>
    /\ UNCHANGED uniquify_vars

---------------------------------------------------------------------------
(* Lines 143-154: the manifests, then the descriptor *)

\* ZipFile.writestr(name, data).  Data that is neither str nor bytes opens the
\* entry and fails on the write, leaving the entry empty; the archive may also
\* reject a write, with or without an entry left behind.
writestr(name, data) ==
    IF Writable(data)
    THEN \/ /\ zip_file' = Append(zip_file, Entry(name, data, TRUE))
            /\ UNCHANGED << pc, error >>
         \/ /\ Raise("ArchiveWriteError")
            /\ \/ UNCHANGED zip_file
               \/ zip_file' = Append(zip_file, Entry(name, data, FALSE))
    ELSE /\ Raise("TypeError")
         /\ zip_file' = Append(zip_file, Entry(name, Str(<< >>), FALSE))

\* Lines 143-149, one manifest.
write_manifest ==
    /\ pc = "manifests"
    /\ index <= Len(manifests)
    /\ LET manifest == manifests[index]
           dest == payload_descriptor.manifests_paths[manifest.docker_image_name]
           single_manifest == select_manifest(manifest.content)
       IN  IF single_manifest.ok
           THEN writestr(dest, single_manifest.value)
           ELSE /\ Raise("TypeError")
                /\ UNCHANGED zip_file
    /\ index' = IF pc' = "failed" THEN index ELSE index + 1
    /\ UNCHANGED << docker_images_to_transfer, docker_images_already_transferred, registry,
                    payload_descriptor, manifests, blobs_to_pull, blobs_already_transferred,
                    blobs_paths, calls >>
    /\ UNCHANGED uniquify_vars

\* Lines 150-154.
write_descriptor ==
    /\ pc = "manifests"
    /\ index > Len(manifests)
    /\ \/ /\ zip_file' = Append(zip_file, Entry(DescriptorPath, Json, TRUE))
          /\ pc' = "done"
          /\ UNCHANGED error
       \/ /\ Raise("ArchiveWriteError")
          /\ \/ UNCHANGED zip_file
             \/ zip_file' = Append(zip_file, Entry(DescriptorPath, Json, FALSE))
    /\ UNCHANGED << docker_images_to_transfer, docker_images_already_transferred, registry,
                    payload_descriptor, manifests, blobs_to_pull, blobs_already_transferred,
                    blobs_paths, index, calls >>
    /\ UNCHANGED uniquify_vars

Next ==
    \/ resolve_image_to_transfer
    \/ resolve_to_transfer_return
    \/ resolve_image_already_transferred
    \/ resolve_already_transferred_return
    \/ add_blobs_skip_placed
    \/ add_blobs_already_transferred
    \/ add_blobs_download
    \/ add_blobs_return
    \/ write_manifest
    \/ write_descriptor

Spec == Init /\ [][Next]_vars

---------------------------------------------------------------------------
(* uniquify_blobs, applied once and twice to every short list of blobs *)

AllBlobs == {Blob(d, r) : d \in Digests, r \in Repositories}

InitUniquify ==
    /\ blobs \in SeqsUpTo(AllBlobs, MaxLen)
    /\ once = << >>
    /\ twice = << >>
    /\ upc = "start"
    /\ docker_images_to_transfer = << >>
    /\ docker_images_already_transferred = << >>
    /\ registry = [img \in Images |-> << >>]
    /\ payload_descriptor = from_images(<< >>, << >>)
    /\ manifests = << >>
    /\ blobs_to_pull = << >>
    /\ blobs_already_transferred = << >>
    /\ blobs_paths = << >>
    /\ index = 1
    /\ zip_file = << >>
    /\ calls = << >>
    /\ error = "none"
    /\ pc = "idle"

uniquify_once ==
    /\ upc = "start"
    /\ once' = uniquify_blobs(blobs)
    /\ upc' = "once"
    /\ UNCHANGED << blobs, twice >>
    /\ UNCHANGED run_vars

uniquify_twice ==
    /\ upc = "once"
    /\ twice' = uniquify_blobs(once)
    /\ upc' = "twice"
    /\ UNCHANGED << blobs, once >>
    /\ UNCHANGED run_vars

NextUniquify == uniquify_once \/ uniquify_twice

SpecUniquify == InitUniquify /\ [][NextUniquify]_vars


---------------------------------------------------------------------------
(* Vocabulary of the properties *)

Digs(list_of_blobs) == {list_of_blobs[k].digest : k \in 1..Len(list_of_blobs)}
Pulls(digest) == {k \in 1..Len(calls) : calls[k].op = "pull_blob" /\ calls[k].ref = digest}
BlobEntries(digest) == {k \in 1..Len(zip_file) : zip_file[k].name = <<"blobs", digest>>}
Returned == pc \in {"manifests", "done"}
IsFirst(list_of_blobs, k) ==
    /\ k \in 1..Len(list_of_blobs)
    /\ \A j \in 1..(k - 1) : list_of_blobs[j].digest # list_of_blobs[k].digest
IsPlacement(digest, placement) ==
    \/ placement = BlobPathInZip(<<"blobs", digest>>)
    \/ \E r \in Repositories : placement = BlobLocationInRegistry(r)

(* C1: the placement mapping holds exactly one entry per digest handed to
   add_blobs_to_zip, each a path in the zip or a location in the registry,
   and an entry once made is never changed or removed during the pass. *)
C1_OnePlacementPerDigest ==
    /\ [](/\ pc = "add_blobs" =>
                DOMAIN blobs_paths = Digs(SubSeq(blobs_to_pull, 1, index - 1))
          /\ Returned => /\ DOMAIN payload_descriptor.blobs_paths = Digs(blobs_to_pull)
                         /\ payload_descriptor.blobs_paths = blobs_paths
          /\ \A d \in DOMAIN blobs_paths : IsPlacement(d, blobs_paths[d]))
    /\ [][pc = "add_blobs" =>
             \A d \in DOMAIN blobs_paths :
                 d \in DOMAIN blobs_paths' /\ blobs_paths'[d] = blobs_paths[d]]_vars

C1_Witness ==
    /\ pc = "done"
    /\ Len(blobs_to_pull) = 4
    /\ Cardinality(DOMAIN payload_descriptor.blobs_paths) = 2
    /\ \E d \in Digs(blobs_to_pull) : d \in Digs(blobs_already_transferred)
    /\ \E d \in Digs(blobs_to_pull) : d \notin Digs(blobs_already_transferred)
    /\ \E j, k \in 1..Len(blobs_to_pull) :
          /\ blobs_to_pull[j].digest = blobs_to_pull[k].digest
          /\ blobs_to_pull[j].repository # blobs_to_pull[k].repository


(* C2: when payload_descriptor.json is written, every digest in the resolved
   blob list of every image whose manifest entry is in the archive is a key of
   the descriptor's blobs_paths. *)
C2_DescriptorComplete ==
    (\E k \in 1..Len(zip_file) : zip_file[k].name = DescriptorPath) =>
        /\ \A k \in 1..Len(manifests) :
              \E e \in 1..Len(zip_file) :
                  zip_file[e].name = ManifestPath(manifests[k].docker_image_name)
        /\ \A e \in 1..Len(zip_file) :
              zip_file[e].name[1] = "manifests" =>
                  \A d \in Digs(get_list_of_blobs(registry, zip_file[e].name[2])) :
                      d \in DOMAIN payload_descriptor.blobs_paths

C2_Witness ==
    /\ pc = "done"
    /\ Len(manifests) = 2
    /\ manifests[1].docker_image_name # manifests[2].docker_image_name
    /\ \A k \in 1..2 : Len(registry[manifests[k].docker_image_name]) = 2
    /\ Cardinality(DOMAIN payload_descriptor.blobs_paths) = 2

(* C3: a digest found in the blobs of the images already transferred is never
   pulled and never written under blobs/, and when an image to transfer needs
   it, its placement is the registry location whose repository is that of the
   first blob with this digest in the already-transferred list. *)
C3_AlreadyTransferredShortCircuit ==
    \A d \in Digs(blobs_already_transferred) :
        /\ Pulls(d) = {}
        /\ BlobEntries(d) = {}
        /\ Returned /\ d \in Digs(blobs_to_pull) => d \in DOMAIN payload_descriptor.blobs_paths
        /\ d \in DOMAIN blobs_paths =>
              \E k \in 1..Len(blobs_already_transferred) :
                  /\ IsFirst(blobs_already_transferred, k)
                  /\ blobs_already_transferred[k].digest = d
                  /\ blobs_paths[d] =
                         BlobLocationInRegistry(blobs_already_transferred[k].repository)

C3_Witness ==
    /\ pc = "done"
    /\ \E d \in Digs(blobs_to_pull) :
          /\ d \in DOMAIN payload_descriptor.blobs_paths
          /\ \E j, k \in 1..Len(blobs_already_transferred) :
                /\ j < k
                /\ blobs_already_transferred[j].digest = d
                /\ blobs_already_transferred[k].digest = d
                /\ blobs_already_transferred[j].repository = "b"
                /\ blobs_already_transferred[k].repository = "a"

(* C4: over a whole run a digest is pulled at most once and at most one entry
   blobs/<digest> is opened, however often the blobs to pull repeat it, and no
   pull is issued for a digest that already has a placement. *)
C4_AtMostOnceBundling ==
    /\ [](\A d \in Digests : Cardinality(Pulls(d)) <= 1 /\ Cardinality(BlobEntries(d)) <= 1)
    /\ [][\A d \in DOMAIN blobs_paths :
             pc = "add_blobs" =>
                 /\ \A c \in (Len(calls) + 1)..Len(calls') : calls'[c].ref # d
                 /\ \A e \in (Len(zip_file) + 1)..Len(zip_file') :
                        zip_file'[e].name # <<"blobs", d>>]_vars

C4_Witness ==
    /\ pc = "done"
    /\ \E d \in Digests :
          /\ Cardinality({k \in 1..Len(blobs_to_pull) : blobs_to_pull[k].digest = d}) >= 3
          /\ Cardinality(Pulls(d)) = 1
          /\ Cardinality(BlobEntries(d)) = 1

Processed(k) == (pc = "add_blobs" /\ k < index) \/ Returned

(* C5: a digest that several blobs to pull carry, and that is not already
   transferred, is placed at blobs/<digest>, is pulled once and from the
   repository of its first occurrence, and a later occurrence causes no call,
   no write and no change of the placements. *)
C5_FirstOccurrenceWins ==
    /\ [](\A k \in 1..Len(blobs_to_pull) :
             LET blob == blobs_to_pull[k]
             IN  /\ IsFirst(blobs_to_pull, k)
                 /\ Processed(k)
                 /\ blob.digest \notin Digs(blobs_already_transferred)
                 => /\ blobs_paths[blob.digest] = BlobPathInZip(<<"blobs", blob.digest>>)
                    /\ Cardinality(Pulls(blob.digest)) = 1
                    /\ \A c \in Pulls(blob.digest) : calls[c].repository = blob.repository
                    /\ Cardinality(BlobEntries(blob.digest)) = 1)
    /\ [][pc = "add_blobs" /\ index <= Len(blobs_to_pull) /\ ~IsFirst(blobs_to_pull, index)
             => UNCHANGED << calls, zip_file, blobs_paths >>]_vars

C5_Witness ==
    /\ pc = "done"
    /\ \E j, k \in 1..Len(blobs_to_pull) :
          /\ j < k
          /\ blobs_to_pull[j].digest = blobs_to_pull[k].digest
          /\ blobs_to_pull[j].repository = "a"
          /\ blobs_to_pull[k].repository = "b"
          /\ blobs_to_pull[j].digest \notin Digs(blobs_already_transferred)
          /\ Pulls(blobs_to_pull[j].digest) # {}

(* C6: the images to transfer are split, in order, into those absent from the
   already-transferred list and those present in it; a skipped image is in the
   skipped list, gets no manifest and no manifest entry, none of its digests
   is pulled or bundled, and a placement for one of its digests exists only
   because an image that is processed carries the digest too. *)
C6_SkipWholeImage ==
    /\ payload_descriptor.images =
           SelectSeq(docker_images_to_transfer,
                     LAMBDA x : x \notin Range(docker_images_already_transferred))
    /\ payload_descriptor.skipped_images =
           SelectSeq(docker_images_to_transfer,
                     LAMBDA x : x \in Range(docker_images_already_transferred))
    /\ pc \in {"resolve_already", "add_blobs", "manifests", "done"} =>
           [k \in 1..Len(manifests) |-> manifests[k].docker_image_name] =
               SelectSeq(docker_images_to_transfer,
                         LAMBDA x : x \notin Range(docker_images_already_transferred))
    /\ \A s \in Range(docker_images_to_transfer) \cap Range(docker_images_already_transferred) :
          /\ s \in Range(payload_descriptor.skipped_images)
          /\ \A k \in 1..Len(manifests) : manifests[k].docker_image_name # s
          /\ \A e \in 1..Len(zip_file) : zip_file[e].name # ManifestPath(s)
          /\ \A d \in Range(registry[s]) :
                /\ Pulls(d) = {}
                /\ BlobEntries(d) = {}
                /\ d \in DOMAIN blobs_paths =>
                       d \in Digs(blobs_to_pull) /\ DOMAIN blobs_paths[d] = {"repository"}

C6_Witness ==
    /\ pc = "done"
    /\ docker_images_to_transfer = <<"a:1", "b:1">>
    /\ docker_images_already_transferred = <<"a:1">>
    /\ payload_descriptor.skipped_images = <<"a:1">>
    /\ registry["a:1"] = <<"sha256:abc", "sha256:def">>
    /\ registry["b:1"] = <<"sha256:def">>

(* C7: payload_descriptor.json is the last entry of the archive whenever it is
   in the archive, it is there once, and in a successful run every placement
   blobs/<digest> and every manifest has its entry, completely written,
   before it. *)
C7_DescriptorWrittenLast ==
    /\ \A e \in 1..Len(zip_file) : zip_file[e].name = DescriptorPath => e = Len(zip_file)
    /\ pc = "done" =>
          /\ zip_file # << >>
          /\ zip_file[Len(zip_file)] = Entry(DescriptorPath, Json, TRUE)
          /\ \A e \in 1..Len(zip_file) : zip_file[e].complete
          /\ \A d \in DOMAIN payload_descriptor.blobs_paths :
                payload_descriptor.blobs_paths[d] = BlobPathInZip(<<"blobs", d>>) =>
                    BlobEntries(d) # {}
          /\ \A k \in 1..Len(manifests) :
                \E e \in 1..(Len(zip_file) - 1) :
                    zip_file[e].name =
                        payload_descriptor.manifests_paths[manifests[k].docker_image_name]

C7_Witness ==
    /\ pc = "done"
    /\ Len(zip_file) = 5
    /\ zip_file[1].name[1] = "blobs"
    /\ zip_file[2].name[1] = "blobs"
    /\ zip_file[3].name[1] = "manifests"
    /\ zip_file[4].name[1] = "manifests"

\* The body the manifest of an image is to be bundled as.
ExpectedBody(content) ==
    IF content.type = "dict" /\ "linux/amd64" \in DOMAIN content.items
    THEN content.items["linux/amd64"]
    ELSE content

(* C8: once the loop over the manifests has dealt with a manifest, the archive
   holds at its path the linux/amd64 variant when the content is an index
   with that key and the whole content in every other case (unless the
   archive itself rejected the write). *)
C8_ManifestBodyWritten ==
    \A k \in 1..Len(manifests) :
        \/ pc = "manifests" /\ k < index
        \/ pc = "done"
        \/ pc = "failed" /\ error = "TypeError" /\ k <= index
        => \E e \in 1..Len(zip_file) :
               /\ zip_file[e].name = ManifestPath(manifests[k].docker_image_name)
               /\ zip_file[e].complete
               /\ zip_file[e].data = ExpectedBody(manifests[k].content)

(* C9: uniquify_blobs returns, in the order of first occurrence, the first
   blob of each digest of its argument and nothing else, and applied to its
   own result it returns it unchanged. *)
C9_Uniquify ==
    upc \in {"once", "twice"} =>
        /\ \A j, k \in 1..Len(once) : once[j].digest = once[k].digest => j = k
        /\ Digs(once) = Digs(blobs)
        /\ \A k \in 1..Len(once) :
              \E i \in 1..Len(blobs) : IsFirst(blobs, i) /\ once[k] = blobs[i]
        /\ \A j, k \in 1..Len(once) :
              j < k =>
                  \E i1, i2 \in 1..Len(blobs) :
                      /\ i1 < i2
                      /\ IsFirst(blobs, i1) /\ blobs[i1] = once[j]
                      /\ IsFirst(blobs, i2) /\ blobs[i2] = once[k]
        /\ upc = "twice" => twice = once

C9_Witness ==
    /\ upc = "twice"
    /\ Len(blobs) = 3
    /\ Len(once) = 2
    /\ blobs[1].digest = blobs[3].digest
    /\ blobs[1].repository # blobs[3].repository

(* C10: an error ends the run where it occurs: nothing is called or written
   afterwards, payload_descriptor.json is not written, and when it is a
   manifest that could not be resolved the archive has no entry at all. *)
C10_AbortOnFirstError ==
    /\ [](error # "none" =>
             /\ pc = "failed"
             /\ \A e \in 1..Len(zip_file) :
                   zip_file[e].name = DescriptorPath => ~zip_file[e].complete
             /\ error = "ManifestNotFoundError" => zip_file = << >>)
    /\ [][error # "none" => UNCHANGED << zip_file, calls, payload_descriptor >>]_vars

C10_Witness ==
    /\ pc = "failed"
    /\ error = "BlobTransferError"
    /\ Len(zip_file) = 2
    /\ zip_file[1].complete
    /\ ~zip_file[2].complete
    /\ index < Len(blobs_to_pull)

===========================================================================
